---- MODULE Spec2Model ----
(***************************************************************************)
(* Model of src/python/database_connection.py: the PharmaceuticalAnalytics *)
(* gateway (connect_database, execute_query, close_connection), the metric *)
(* queries built on it, the report formatter and main().                   *)
(*                                                                         *)
(* A Python call is modelled by an operator that takes the object's fields *)
(* (self), and the outcomes of the driver calls it makes, and yields the   *)
(* new fields, the return value and the exception that escapes the call    *)
(* ("None" when the call returns normally).                                *)
(***************************************************************************)
EXTENDS Integers, Sequences, FiniteSets, TLC

VARIABLES
    connection,     \* self.connection: "None", "Open" or "Closed"
    cursor,         \* self.cursor:     "None", "Open" or "Closed"
    connected,      \* self.connected
    db,             \* the database the driver reads
    faults,         \* whether driver calls can raise in this run
    lastOp,         \* the method called last
    pre,            \* self as it was when that call started
    drv,            \* the outcomes of the driver calls made by that call
    ret,            \* what the call returned (NULL: nothing)
    raised,         \* the exception in flight after the call, "None" if none
    closes,         \* number of close_connection calls so far
    everConnected,  \* connect_database has returned True at least once
    pc,             \* position of main(); "client" when the methods are called freely
    log,            \* main(): the steps taken, with the queries each issued
    files           \* the artifacts written to the working directory

vars == <<connection, cursor, connected, db, faults, lastOp, pre, drv, ret, raised,
          closes, everConnected, pc, log, files>>

\* Number of close_connection calls a client makes on one object.
MaxCloses == 2

\* Number of queries of one method call in which pd.read_sql raises, when it
\* does not raise in all of them.
MaxFailures == 1

-----------------------------------------------------------------------------
(* The object *)

Self == [connection |-> connection, cursor |-> cursor, connected |-> connected]

\* __init__: no connection, no cursor, not connected.
NewObject == [connection |-> "None", cursor |-> "None", connected |-> FALSE]

\* Outcomes of one driver call: it returns, or it raises the driver's error.
DriverOutcomes == {"ok", "error"}

\* pd.DataFrame(): no columns, no rows.
EmptyDataFrame == [columns |-> {}, rows |-> <<>>]

\* DataFrame.empty
IsEmpty(df) == Len(df.rows) = 0 \/ df.columns = {}

-----------------------------------------------------------------------------
(* connect_database *)

\* connect_database without its except clause: the driver's error escapes.
connect_database_unguarded(self, conn, cur) ==
    IF conn = "error" \/ cur = "error"
    THEN [self |-> IF conn = "error" THEN self ELSE [self EXCEPT !.connection = "Open"],
          ret |-> FALSE, raised |-> "Error"]
    ELSE [self |-> [connection |-> "Open", cursor |-> "Open", connected |-> TRUE],
          ret |-> TRUE, raised |-> "None"]

\* conn: outcome of mysql.connector.connect; cur: outcome of connection.cursor().
connect_database(self, conn, cur) ==
    IF conn = "error"
    THEN [self |-> [self EXCEPT !.connected = FALSE], ret |-> FALSE, raised |-> "None"]
    ELSE IF cur = "error"
    THEN [self |-> [self EXCEPT !.connection = "Open", !.connected = FALSE],
          ret |-> FALSE, raised |-> "None"]
    ELSE [self |-> [connection |-> "Open", cursor |-> "Open", connected |-> TRUE],
          ret |-> TRUE, raised |-> "None"]

-----------------------------------------------------------------------------
(* execute_query *)

\* execute_query without its except clause: what pd.read_sql raises escapes.
execute_query_unguarded(self, out) ==
    IF ~self.connected
    THEN [ret |-> EmptyDataFrame, raised |-> "None"]
    ELSE IF out.throws
    THEN [ret |-> EmptyDataFrame, raised |-> "DatabaseError"]
    ELSE [ret |-> out.table, raised |-> "None"]

\* out: the outcome of pd.read_sql, [throws |-> TRUE] or
\* [throws |-> FALSE, table |-> the DataFrame read].
execute_query(self, out) ==
    IF ~self.connected
    THEN [ret |-> EmptyDataFrame, raised |-> "None"]
    ELSE IF out.throws
    THEN [ret |-> EmptyDataFrame, raised |-> "None"]
    ELSE [ret |-> out.table, raised |-> "None"]

-----------------------------------------------------------------------------
(* close_connection *)

\* cur, conn: outcomes of cursor.close() and connection.close(), were they called.
\* log: which of the two releases the call attempted.
close_connection(self, cur, conn) ==
    IF self.cursor # "None" /\ cur = "error"
    THEN [self |-> self, raised |-> "None",
          log |-> [cursor |-> TRUE, connection |-> FALSE, warning |-> TRUE]]
    ELSE LET c == IF self.cursor # "None" THEN "Closed" ELSE "None"
         IN IF self.connection # "None" /\ conn = "error"
            THEN [self |-> [self EXCEPT !.cursor = c], raised |-> "None",
                  log |-> [cursor |-> self.cursor # "None", connection |-> TRUE,
                           warning |-> TRUE]]
            ELSE [self |-> [connection |-> IF self.connection # "None"
                                           THEN "Closed" ELSE "None",
                            cursor |-> c, connected |-> FALSE],
                  raised |-> "None",
                  log |-> [cursor |-> self.cursor # "None",
                           connection |-> self.connection # "None",
                           warning |-> FALSE]]

-----------------------------------------------------------------------------
(* The database the queries read *)

\* SQL NULL and Python None; a value v that is not NULL is <<v>>.
NULL == <<>>
Val(v) == <<v>>

\* Largest number of rows in Orders.
MaxOrders == 2

Statuses == {"Cancelled", "Completed"}
Costs == {100, 500}

\* Dimension tables, the same in every database.
Region == {[Region_ID |-> 1, Name |-> "East"], [Region_ID |-> 2, Name |-> "West"]}
Sales_Representative ==
    {[Representative_ID |-> 1, Name |-> "Ann", Region_ID |-> 1, Performance_Rating |-> 4],
     [Representative_ID |-> 2, Name |-> "Bob", Region_ID |-> 2, Performance_Rating |-> 3]}
Product ==
    {[Product_ID |-> 1, Name |-> "Aspirin", Category |-> "Analgesic", Price |-> 5],
     [Product_ID |-> 2, Name |-> "Insulin", Category |-> "Hormone", Price |-> 20]}
Customer == {[Customer_ID |-> 1], [Customer_ID |-> 2]}
Doctors == {[Customer_ID |-> 1]}
Hospital == {[Customer_ID |-> 1], [Customer_ID |-> 2]}
Pharmacy == {}

\* One order: its representative, its status, its cost, and the product of its
\* one line in Involvement (0: the order has no line). The line's Line_Total is
\* the order's cost; the customer who placed it has its representative's number.
OrderShapes ==
    [Representative_ID : {1, 2}, Order_Status : Statuses, Total_cost : Costs,
     Product_ID : {0, 1}]

OrdersOf(f) ==
    {[Order_ID |-> k, Representative_ID |-> f[k].Representative_ID,
      Order_Status |-> f[k].Order_Status, Total_cost |-> f[k].Total_cost] :
        k \in DOMAIN f}

InvolvementOf(f) ==
    {[Order_ID |-> k, Product_ID |-> f[k].Product_ID, Quantity_Ordered |-> 1,
      Line_Total |-> f[k].Total_cost] : k \in {j \in DOMAIN f : f[j].Product_ID # 0}}

Order_PlacedOf(f) ==
    {[Order_ID |-> k, Customer_ID |-> f[k].Representative_ID] : k \in DOMAIN f}

\* The Inventory and Interaction tables the databases are built from.
Extras ==
    {[Inventory |-> {}, Interaction |-> {}],
     [Inventory |->
        {[Product_ID |-> 1, Quantity |-> 0, Reorder_Level |-> 10, Location |-> "A"]},
      Interaction |->
        {[Representative_ID |-> 1, Customer_ID |-> 1],
         [Representative_ID |-> 1, Customer_ID |-> 2]}],
     [Inventory |->
        {[Product_ID |-> 1, Quantity |-> 3, Reorder_Level |-> 10, Location |-> "A"],
         [Product_ID |-> 2, Quantity |-> 20, Reorder_Level |-> 10, Location |-> "B"]},
      Interaction |-> {[Representative_ID |-> 2, Customer_ID |-> 1]}]}

Database(f, x) ==
    [Orders |-> OrdersOf(f), Involvement |-> InvolvementOf(f),
     Order_Placed |-> Order_PlacedOf(f), Inventory |-> x.Inventory,
     Interaction |-> x.Interaction]

Databases ==
    {Database(f, x) :
        f \in UNION {[1..n -> OrderShapes] : n \in 0..MaxOrders}, x \in Extras}

-----------------------------------------------------------------------------
(* SQL, as the queries use it *)

\* LEFT JOIN: the matching rows, or one all-NULL row ({}) when there is none.
LeftJoin(matches) == IF matches = {} THEN {{}} ELSE {{m} : m \in matches}
The(opt) == CHOOSE m \in opt : TRUE

\* SUM over rows [id, n]: NULL when there is no row.
RECURSIVE Total(_)
Total(T) ==
    IF T = {} THEN 0
    ELSE LET t == CHOOSE x \in T : TRUE IN t.n + Total(T \ {t})
SUM(T) == IF T = {} THEN NULL ELSE Val(Total(T))

\* a >= b in ORDER BY ... DESC, where NULL comes last.
Before(a, b) == b = NULL \/ (a # NULL /\ a[1] >= b[1])

\* ORDER BY key DESC over [key, row]; rows of equal key in an order of its own.
RECURSIVE OrderByDesc(_)
OrderByDesc(S) ==
    IF S = {} THEN <<>>
    ELSE LET top == CHOOSE x \in S : \A y \in S : Before(x.key, y.key)
         IN <<top.row>> \o OrderByDesc(S \ {top})

DataFrame(columns, rows) == [columns |-> columns, rows |-> rows]

-----------------------------------------------------------------------------
(* The four queries of get_executive_summary *)

NotCancelled(d) == {o \in d.Orders : o.Order_Status # "Cancelled"}

revenue_query(d) ==
    DataFrame({"total_revenue"},
        <<[total_revenue |->
            SUM({[id |-> o.Order_ID, n |-> o.Total_cost] : o \in NotCancelled(d)})]>>)

orders_query(d) ==
    DataFrame({"total_orders"},
        <<[total_orders |-> Val(Cardinality(NotCancelled(d)))]>>)

reps_query(d) ==
    DataFrame({"active_reps"},
        <<[active_reps |->
            Val(Cardinality({sr.Representative_ID : sr \in Sales_Representative}))]>>)

inventory_query(d) ==
    DataFrame({"inventory_value"},
        <<[inventory_value |->
            SUM(UNION {{[id |-> <<p.Product_ID, i.Location>>, n |-> p.Price * i.Quantity] :
                          i \in {j \in d.Inventory : j.Product_ID = p.Product_ID}} :
                       p \in Product})]>>)

-----------------------------------------------------------------------------
(* The analysis queries. Columns that are averages, quotients or dates        *)
(* (Average_Order_Value, Revenue_Per_Rep, Last_Order_Date, ...) are left out. *)

\* WHERE o.Order_Status != 'Cancelled' OR o.Order_Status IS NULL
NotCancelledOrNull(o) == o = {} \/ The(o).Order_Status # "Cancelled"

\* Orders of the joined rows J, one [id, n] per joined row that has an order.
OrderCosts(J) ==
    {[id |-> x, n |-> The(x.o).Total_cost] : x \in {y \in J : y.o # {}}}

OrderIds(J) == {The(x.o).Order_ID : x \in {y \in J : y.o # {}}}
InteractionCustomers(J) == {The(x.i).Customer_ID : x \in {y \in J : y.i # {}}}

\* FROM Sales_Representative sr JOIN Region r LEFT JOIN Orders o LEFT JOIN Interaction i
sales_performance_join(d) ==
    UNION {UNION {UNION {
        {[sr |-> sr, r |-> r, o |-> o, i |-> i] :
            i \in LeftJoin({j \in d.Interaction :
                              j.Representative_ID = sr.Representative_ID})} :
            o \in LeftJoin({p \in d.Orders :
                              p.Representative_ID = sr.Representative_ID})} :
            r \in {q \in Region : q.Region_ID = sr.Region_ID}} :
            sr \in Sales_Representative}

sales_performance_query(d) ==
    LET J == {x \in sales_performance_join(d) : NotCancelledOrNull(x.o)}
        G(k) == {x \in J : x.sr.Representative_ID = k}
        Row(k) ==
            LET g == CHOOSE x \in G(k) : TRUE
            IN [Representative_Name |-> g.sr.Name,
                Region_Name |-> g.r.Name,
                Performance_Rating |-> g.sr.Performance_Rating,
                Total_Orders |-> Cardinality(OrderIds(G(k))),
                Total_Sales |-> SUM(OrderCosts(G(k))),
                Unique_Customers |-> Cardinality(InteractionCustomers(G(k)))]
    IN DataFrame({"Representative_Name", "Region_Name", "Performance_Rating",
                  "Total_Orders", "Total_Sales", "Unique_Customers"},
                 OrderByDesc({[key |-> Row(k).Total_Sales, row |-> Row(k)] :
                                k \in {x.sr.Representative_ID : x \in J}}))

\* Stock_Status with < where the CASE has <=.
Stock_Status_strict(i) ==
    IF i.Quantity = 0 THEN "OUT_OF_STOCK"
    ELSE IF 10 * i.Quantity < 3 * i.Reorder_Level THEN "CRITICAL"
    ELSE IF 10 * i.Quantity < 6 * i.Reorder_Level THEN "LOW"
    ELSE IF i.Quantity < i.Reorder_Level THEN "MODERATE"
    ELSE "ADEQUATE"

\* Stock_Status: i.Quantity <= i.Reorder_Level * 0.3 is 10 * Quantity <= 3 * Reorder_Level.
Stock_Status(i) ==
    IF i.Quantity = 0 THEN "OUT_OF_STOCK"
    ELSE IF 10 * i.Quantity <= 3 * i.Reorder_Level THEN "CRITICAL"
    ELSE IF 10 * i.Quantity <= 6 * i.Reorder_Level THEN "LOW"
    ELSE IF i.Quantity <= i.Reorder_Level THEN "MODERATE"
    ELSE "ADEQUATE"

Action_Required(i) ==
    IF i.Quantity <= i.Reorder_Level THEN "REORDER_NOW"
    ELSE IF 10 * i.Quantity <= 15 * i.Reorder_Level THEN "MONITOR"
    ELSE "SUFFICIENT"

\* The CASE of the ORDER BY clause.
StockRank(i) ==
    IF i.Quantity = 0 THEN 1
    ELSE IF 10 * i.Quantity <= 3 * i.Reorder_Level THEN 2
    ELSE IF 10 * i.Quantity <= 6 * i.Reorder_Level THEN 3
    ELSE IF i.Quantity <= i.Reorder_Level THEN 4
    ELSE 5

\* ORDER BY rank, Total_Value DESC over [rank, row].
RECURSIVE OrderByRank(_)
OrderByRank(S) ==
    IF S = {} THEN <<>>
    ELSE LET top == CHOOSE x \in S : \A y \in S :
                        \/ x.rank < y.rank
                        \/ x.rank = y.rank /\ x.row.Total_Value >= y.row.Total_Value
         IN <<top.row>> \o OrderByRank(S \ {top})

\* FROM Product p JOIN Inventory i
inventory_status_query(d) ==
    LET J == UNION {{[p |-> p, i |-> i] :
                        i \in {j \in d.Inventory : j.Product_ID = p.Product_ID}} :
                    p \in Product}
        Row(x) ==
            [Product_Name |-> x.p.Name, Category |-> x.p.Category, Price |-> x.p.Price,
             Current_Stock |-> x.i.Quantity, Reorder_Level |-> x.i.Reorder_Level,
             Total_Value |-> x.p.Price * x.i.Quantity, Location |-> x.i.Location,
             Stock_Status |-> Stock_Status(x.i),
             Action_Required |-> Action_Required(x.i)]
    IN DataFrame({"Product_Name", "Category", "Price", "Current_Stock", "Reorder_Level",
                  "Total_Value", "Location", "Stock_Status", "Action_Required"},
                 OrderByRank({[rank |-> StockRank(x.i), row |-> Row(x)] : x \in J}))

\* FROM Region r LEFT JOIN Sales_Representative sr LEFT JOIN Orders o
\* LEFT JOIN Interaction i
regional_performance_join(d) ==
    UNION {UNION {UNION {
        {[r |-> r, sr |-> sr, o |-> o, i |-> i] :
            i \in LeftJoin({j \in d.Interaction : sr # {} /\
                              j.Representative_ID = The(sr).Representative_ID})} :
            o \in LeftJoin({p \in d.Orders : sr # {} /\
                              p.Representative_ID = The(sr).Representative_ID})} :
            sr \in LeftJoin({q \in Sales_Representative : q.Region_ID = r.Region_ID})} :
            r \in Region}

regional_performance_query(d) ==
    LET J == {x \in regional_performance_join(d) : NotCancelledOrNull(x.o)}
        G(k) == {x \in J : x.r.Region_ID = k}
        Reps(k) == {The(x.sr).Representative_ID : x \in {y \in G(k) : y.sr # {}}}
        Row(k) ==
            LET g == CHOOSE x \in G(k) : TRUE
            IN [Region_Name |-> g.r.Name,
                Total_Representatives |-> Cardinality(Reps(k)),
                Total_Orders |-> Cardinality(OrderIds(G(k))),
                Total_Revenue |-> SUM(OrderCosts(G(k))),
                Unique_Customers |-> Cardinality(InteractionCustomers(G(k)))]
    IN DataFrame({"Region_Name", "Total_Representatives", "Total_Orders",
                  "Total_Revenue", "Unique_Customers"},
                 OrderByDesc({[key |-> Row(k).Total_Revenue, row |-> Row(k)] :
                                k \in {y \in {x.r.Region_ID : x \in J} :
                                         Cardinality(Reps(y)) > 0}}))

\* The CASE that names a customer's segment: the first match wins.
Customer_Type(c) ==
    IF \E x \in Doctors : x.Customer_ID = c.Customer_ID THEN "Doctor"
    ELSE IF \E x \in Hospital : x.Customer_ID = c.Customer_ID THEN "Hospital"
    ELSE IF \E x \in Pharmacy : x.Customer_ID = c.Customer_ID THEN "Pharmacy"
    ELSE "Other"

\* FROM Customer c LEFT JOIN Doctors, Hospital, Pharmacy LEFT JOIN Order_Placed op
\* LEFT JOIN Orders o ON op.Order_ID = o.Order_ID AND o.Order_Status != 'Cancelled'
customer_segments_join(d) ==
    UNION {UNION {
        {[c |-> c, op |-> op, o |-> o] :
            o \in LeftJoin({p \in d.Orders : op # {} /\ p.Order_ID = The(op).Order_ID
                                             /\ p.Order_Status # "Cancelled"})} :
            op \in LeftJoin({q \in d.Order_Placed : q.Customer_ID = c.Customer_ID})} :
            c \in Customer}

customer_segments_query(d) ==
    LET J == customer_segments_join(d)
        G(k) == {x \in J : Customer_Type(x.c) = k}
        Row(k) ==
            [Customer_Type |-> k,
             Customer_Count |-> Cardinality({x.c.Customer_ID : x \in G(k)}),
             Total_Orders |->
                Cardinality({The(x.op).Order_ID : x \in {y \in G(k) : y.op # {}}}),
             Total_Revenue |-> SUM(OrderCosts(G(k)))]
    IN DataFrame({"Customer_Type", "Customer_Count", "Total_Orders", "Total_Revenue"},
                 OrderByDesc({[key |-> Row(k).Total_Revenue, row |-> Row(k)] :
                                k \in {Customer_Type(x.c) : x \in J}}))

\* ROUND(a / b, 2) in hundredths, for a >= 0 and b > 0.
Round2(a, b) == (200 * a + b) \div (2 * b)

\* FROM Product p LEFT JOIN Involvement inv
\* LEFT JOIN Orders o ON inv.Order_ID = o.Order_ID AND o.Order_Status != 'Cancelled'
\* LEFT JOIN Inventory i
product_performance_join(d) ==
    UNION {UNION {UNION {
        {[p |-> p, inv |-> inv, o |-> o, i |-> i] :
            i \in LeftJoin({j \in d.Inventory : j.Product_ID = p.Product_ID})} :
            o \in LeftJoin({q \in d.Orders : inv # {} /\ q.Order_ID = The(inv).Order_ID
                                             /\ q.Order_Status # "Cancelled"})} :
            inv \in LeftJoin({l \in d.Involvement : l.Product_ID = p.Product_ID})} :
            p \in Product}

\* SUM(inv.Line_Total) over the joined rows J
LineTotals(J) ==
    {[id |-> x, n |-> The(x.inv).Line_Total] : x \in {y \in J : y.inv # {}}}

product_performance_query(d) ==
    LET J == product_performance_join(d)
        G(k) == {x \in J : <<x.p.Product_ID, x.i>> = k}
        Sold(k) == SUM({[id |-> x, n |-> The(x.inv).Quantity_Ordered] :
                            x \in {y \in G(k) : y.inv # {}}})
        Row(k) ==
            LET g == CHOOSE x \in G(k) : TRUE
            IN [Product_Name |-> g.p.Name, Category |-> g.p.Category,
                Unit_Price |-> g.p.Price,
                Times_Ordered |->
                    Cardinality({The(x.inv).Order_ID : x \in {y \in G(k) : y.inv # {}}}),
                Total_Quantity_Sold |-> Sold(k),
                Total_Revenue |-> SUM(LineTotals(G(k))),
                Current_Stock |-> IF g.i = {} THEN NULL ELSE Val(The(g.i).Quantity),
                Turnover_Ratio |->
                    IF g.i # {} /\ Sold(k) # NULL /\ The(g.i).Quantity > 0 /\ Sold(k)[1] > 0
                    THEN Round2(Sold(k)[1], The(g.i).Quantity) ELSE 0]
    IN DataFrame({"Product_Name", "Category", "Unit_Price", "Times_Ordered",
                  "Total_Quantity_Sold", "Total_Revenue", "Current_Stock",
                  "Turnover_Ratio"},
                 OrderByDesc({[key |-> Row(k).Total_Revenue, row |-> Row(k)] :
                                k \in {<<x.p.Product_ID, x.i>> : x \in J}}))

-----------------------------------------------------------------------------
(* The metric methods *)

\* pd.read_sql on a query whose result is table: it raises when the driver does.
ReadSql(throws, table) ==
    IF throws THEN [throws |-> TRUE] ELSE [throws |-> FALSE, table |-> table]

\* df.iloc[0][column]
Cell(df, column) == df.rows[1][column]

\* The analyses return what execute_query returns.
analyze_sales_performance(self, d, t) ==
    execute_query(self, ReadSql(t, sales_performance_query(d)))
analyze_inventory_status(self, d, t) ==
    execute_query(self, ReadSql(t, inventory_status_query(d)))
analyze_regional_performance(self, d, t) ==
    execute_query(self, ReadSql(t, regional_performance_query(d)))
analyze_customer_segments(self, d, t) ==
    execute_query(self, ReadSql(t, customer_segments_query(d)))
analyze_product_performance(self, d, t) ==
    execute_query(self, ReadSql(t, product_performance_query(d)))

\* a / b of Python: the quotient as a fraction, ZeroDivisionError when b = 0.
TrueDiv(a, b) ==
    IF b = 0 THEN [raised |-> "ZeroDivisionError"]
    ELSE [raised |-> "None", ret |-> [num |-> a, den |-> b]]

\* The number 0 as a quotient.
Zero == [num |-> 0, den |-> 1]

\* average_order_value without the test of total_orders.
average_order_value_unguarded(total_revenue, total_orders) ==
    TrueDiv(total_revenue, total_orders)

\* summary['average_order_value']
average_order_value(total_revenue, total_orders) ==
    IF total_orders > 0
    THEN TrueDiv(total_revenue, total_orders)
    ELSE [raised |-> "None", ret |-> Zero]

\* float(x) and int(x) of a cell: TypeError on None.
\* summary[key] = float(result.iloc[0][column]) if not result.empty else 0
Scalar(df, column) == IF ~IsEmpty(df) THEN Cell(df, column) ELSE Val(0)

\* t[1..4]: whether pd.read_sql raises in each of the four queries.
get_executive_summary(self, d, t) ==
    LET revenue_result == execute_query(self, ReadSql(t[1], revenue_query(d))).ret
        orders_result == execute_query(self, ReadSql(t[2], orders_query(d))).ret
        reps_result == execute_query(self, ReadSql(t[3], reps_query(d))).ret
        inventory_result == execute_query(self, ReadSql(t[4], inventory_query(d))).ret
        total_revenue == Scalar(revenue_result, "total_revenue")
        total_orders == Scalar(orders_result, "total_orders")
        active_representatives == Scalar(reps_result, "active_reps")
        inventory_value == Scalar(inventory_result, "inventory_value")
    IN IF total_revenue = NULL THEN [raised |-> "TypeError", queries |-> 1]
       ELSE IF total_orders = NULL THEN [raised |-> "TypeError", queries |-> 2]
       ELSE IF active_representatives = NULL THEN [raised |-> "TypeError", queries |-> 3]
       ELSE IF inventory_value = NULL THEN [raised |-> "TypeError", queries |-> 4]
       ELSE LET avg == average_order_value(total_revenue[1], total_orders[1])
            IN IF avg.raised # "None" THEN [raised |-> avg.raised, queries |-> 4]
               ELSE [raised |-> "None", queries |-> 4,
                     ret |-> [total_revenue |-> total_revenue[1],
                              total_orders |-> total_orders[1],
                              active_representatives |-> active_representatives[1],
                              inventory_value |-> inventory_value[1],
                              average_order_value |-> avg.ret]]

-----------------------------------------------------------------------------
(* generate_detailed_report *)

\* One line of the report: the text of its f-string and the values formatted in it.
Line(text) == [text |-> text, args |-> <<>>]
LineOf(text, args) == [text |-> text, args |-> args]

\* df.head(n)
head(rows, n) == SubSeq(rows, 1, IF Len(rows) < n THEN Len(rows) ELSE n)

\* A column read from SQL holds None in every row when every row is NULL (and NaN
\* for the NULLs of a column that has a number); f"{None:,.2f}" is a TypeError.
AllNone(df, column) == \A k \in 1..Len(df.rows) : df.rows[k][column] = NULL

IsCritical(row) == row.Stock_Status \in {"CRITICAL", "OUT_OF_STOCK"}

SalesLines(rows) ==
    [k \in 1..Len(rows) |->
        LineOf("{Representative_Name} ({Region_Name}): ${Total_Sales:,.2f}",
               <<rows[k].Representative_Name, rows[k].Region_Name, rows[k].Total_Sales>>)]

InventoryLines(rows) ==
    [k \in 1..Len(rows) |->
        LineOf("{Product_Name}: {Current_Stock} units ({Stock_Status})",
               <<rows[k].Product_Name, rows[k].Current_Stock, rows[k].Stock_Status>>)]

RegionalLines(rows) ==
    [k \in 1..Len(rows) |->
        LineOf("{Region_Name}: ${Total_Revenue:,.2f} revenue, {Total_Orders} orders",
               <<rows[k].Region_Name, rows[k].Total_Revenue, rows[k].Total_Orders>>)]

\* t[1..7]: whether pd.read_sql raises in each of the seven queries, in order.
generate_detailed_report(self, d, t) ==
    LET summary == get_executive_summary(self, d, t)
        sales_data == analyze_sales_performance(self, d, t[5]).ret
        inventory_data == analyze_inventory_status(self, d, t[6]).ret
        regional_data == analyze_regional_performance(self, d, t[7]).ret
        critical_items == SelectSeq(inventory_data.rows, IsCritical)
        header ==
            <<Line("="), Line("PHARMACEUTICAL SUPPLY CHAIN ANALYTICS REPORT"), Line("="),
              Line("Generated: {now}"), Line("")>>
        executive ==
            <<Line("EXECUTIVE SUMMARY"), Line("-"),
              LineOf("Total Revenue: ${:,.2f}", <<summary.ret.total_revenue>>),
              LineOf("Total Orders: {:,}", <<summary.ret.total_orders>>),
              LineOf("Active Representatives: {}", <<summary.ret.active_representatives>>),
              LineOf("Average Order Value: ${:,.2f}", <<summary.ret.average_order_value>>),
              LineOf("Total Inventory Value: ${:,.2f}", <<summary.ret.inventory_value>>),
              Line("")>>
        sales ==
            IF ~IsEmpty(sales_data)
            THEN <<Line("TOP SALES PERFORMERS"), Line("-")>>
                 \o SalesLines(head(sales_data.rows, 5)) \o <<Line("")>>
            ELSE <<>>
        inventory ==
            IF Len(critical_items) > 0
            THEN <<Line("CRITICAL INVENTORY ALERTS"), Line("-")>>
                 \o InventoryLines(critical_items) \o <<Line("")>>
            ELSE <<>>
        regional ==
            IF ~IsEmpty(regional_data)
            THEN <<Line("REGIONAL PERFORMANCE SUMMARY"), Line("-")>>
                 \o RegionalLines(head(regional_data.rows, 3)) \o <<Line("")>>
            ELSE <<>>
    IN IF summary.raised # "None"
       THEN [raised |-> summary.raised, queries |-> summary.queries]
       ELSE IF ~IsEmpty(sales_data) /\ AllNone(sales_data, "Total_Sales")
       THEN [raised |-> "TypeError", queries |-> 5]
       ELSE IF "Stock_Status" \notin inventory_data.columns
       THEN [raised |-> "KeyError", queries |-> 6]
       ELSE IF ~IsEmpty(regional_data) /\ AllNone(regional_data, "Total_Revenue")
       THEN [raised |-> "TypeError", queries |-> 7]
       ELSE [raised |-> "None", queries |-> 7,
             ret |-> header \o executive \o sales \o inventory \o regional
                     \o <<Line("=")>>]

-----------------------------------------------------------------------------
(* create_comprehensive_dashboard *)

\* Outcomes of the charting calls: they all return, one of them raises before
\* the image is saved, or plt.show() raises after it is.
ChartOutcomes == {"ok", "error", "show_error"}

\* t[1..9]: whether pd.read_sql raises in each of the nine queries, in order.
\* panels: the panels of the 3x3 grid that are drawn; saved: dashboard.png is written.
create_comprehensive_dashboard(self, d, t, chart) ==
    LET sales_data == analyze_sales_performance(self, d, t[1]).ret
        regional_data == analyze_regional_performance(self, d, t[2]).ret
        inventory_data == analyze_inventory_status(self, d, t[3]).ret
        customer_data == analyze_customer_segments(self, d, t[4]).ret
        product_data == analyze_product_performance(self, d, t[5]).ret
        summary == get_executive_summary(self, d, [k \in 1..4 |-> t[k + 5]])
        panels ==
            (IF ~IsEmpty(sales_data) THEN {1, 8} ELSE {})
            \cup (IF ~IsEmpty(regional_data) THEN {2} ELSE {})
            \cup (IF ~IsEmpty(inventory_data) THEN {3} ELSE {})
            \cup (IF ~IsEmpty(customer_data) THEN {4} ELSE {})
            \cup (IF ~IsEmpty(product_data) THEN {5, 7} ELSE {})
            \cup {6, 9}
    IN IF summary.raised # "None"
       THEN [raised |-> summary.raised, queries |-> 5 + summary.queries, saved |-> FALSE]
       ELSE IF chart = "error"
       THEN [raised |-> "ChartError", queries |-> 9, saved |-> FALSE]
       ELSE IF chart = "show_error"
       THEN [raised |-> "ChartError", queries |-> 9, saved |-> TRUE]
       ELSE [raised |-> "None", queries |-> 9, saved |-> TRUE, ret |-> panels]

-----------------------------------------------------------------------------
(* Calls made on the object *)

\* The outcomes a driver call can have, and whether pd.read_sql raises in each
\* of n queries: in at most MaxFailures of them, or in all.
Outcomes == IF faults THEN DriverOutcomes ELSE {"ok"}
Throws(n) ==
    IF faults
    THEN {t \in [1..n -> BOOLEAN] :
            \/ Cardinality({k \in 1..n : t[k]}) <= MaxFailures
            \/ \A k \in 1..n : t[k]}
    ELSE {[k \in 1..n |-> FALSE]}

\* The databases of the runs in which driver calls can fail.
SessionOrders ==
    {<<>>,
     <<[Representative_ID |-> 1, Order_Status |-> "Completed", Total_cost |-> 100,
        Product_ID |-> 1],
       [Representative_ID |-> 2, Order_Status |-> "Cancelled", Total_cost |-> 500,
        Product_ID |-> 1]>>}
SessionDatabases == {Database(f, x) : f \in SessionOrders, x \in Extras}

SetSelf(self) ==
    /\ connection' = self.connection
    /\ cursor' = self.cursor
    /\ connected' = self.connected

\* What a call leaves to be observed.
Observe(op, outcomes, value, exception) ==
    /\ lastOp' = op
    /\ pre' = Self
    /\ drv' = outcomes
    /\ ret' = value
    /\ raised' = exception

Value(r) == IF r.raised = "None" THEN r.ret ELSE NULL

Connect ==
    /\ pc = "client"
    /\ \E conn \in Outcomes, cur \in Outcomes :
        LET r == connect_database(Self, conn, cur)
        IN /\ SetSelf(r.self)
           /\ Observe("connect_database", <<conn, cur>>, r.ret, r.raised)
           /\ everConnected' = (everConnected \/ r.ret)
    /\ UNCHANGED <<db, faults, closes, pc, log, files>>

\* The SQL texts a caller of execute_query passes: two of the catalog, and one
\* that is malformed, on which the driver always raises.
Queries == {"revenue_query", "inventory_status_query", "malformed"}
Table(q, d) ==
    IF q = "revenue_query" THEN revenue_query(d) ELSE inventory_status_query(d)

ExecuteQuery ==
    /\ pc = "client"
    /\ \E q \in Queries, t \in Throws(1) :
        LET throws == t[1] \/ q = "malformed" \/ connection # "Open"
            r == execute_query(Self, ReadSql(throws, Table(q, db)))
        IN Observe("execute_query", <<throws>>, Value(r), r.raised)
    /\ UNCHANGED <<connection, cursor, connected, db, faults, closes, everConnected,
                   pc, log, files>>

GetExecutiveSummary ==
    /\ pc = "client"
    /\ \E t \in Throws(4) :
        LET r == get_executive_summary(Self, db, t)
        IN Observe("get_executive_summary", t, Value(r), r.raised)
    /\ UNCHANGED <<connection, cursor, connected, db, faults, closes, everConnected,
                   pc, log, files>>

Analyses ==
    {"analyze_sales_performance", "analyze_inventory_status",
     "analyze_regional_performance", "analyze_customer_segments",
     "analyze_product_performance"}

analyze(name, self, d, t) ==
    CASE name = "analyze_sales_performance" -> analyze_sales_performance(self, d, t)
      [] name = "analyze_inventory_status" -> analyze_inventory_status(self, d, t)
      [] name = "analyze_regional_performance" -> analyze_regional_performance(self, d, t)
      [] name = "analyze_customer_segments" -> analyze_customer_segments(self, d, t)
      [] name = "analyze_product_performance" -> analyze_product_performance(self, d, t)

Analyze ==
    /\ pc = "client"
    /\ \E name \in Analyses, t \in Throws(1) :
        LET r == analyze(name, Self, db, t[1])
        IN Observe(name, t, Value(r), r.raised)
    /\ UNCHANGED <<connection, cursor, connected, db, faults, closes, everConnected,
                   pc, log, files>>

Saved(r) == IF r.saved THEN {"dashboard.png"} ELSE {}

CreateDashboard ==
    /\ pc = "client"
    /\ \E t \in Throws(9), chart \in ChartOutcomes :
        LET r == create_comprehensive_dashboard(Self, db, t, chart)
        IN /\ Observe("create_comprehensive_dashboard", <<chart>>, Value(r), r.raised)
           /\ files' = files \cup Saved(r)
    /\ UNCHANGED <<connection, cursor, connected, db, faults, closes, everConnected,
                   pc, log>>

GenerateReport ==
    /\ pc = "client"
    /\ \E t \in Throws(7) :
        LET r == generate_detailed_report(Self, db, t)
        IN Observe("generate_detailed_report", t, Value(r), r.raised)
    /\ UNCHANGED <<connection, cursor, connected, db, faults, closes, everConnected,
                   pc, log, files>>

Close ==
    /\ pc = "client"
    /\ closes < MaxCloses
    /\ \E cur \in Outcomes, conn \in Outcomes :
        LET r == close_connection(Self, cur, conn)
        IN /\ SetSelf(r.self)
           /\ Observe("close_connection", <<cur, conn>>, r.log, r.raised)
    /\ closes' = closes + 1
    /\ UNCHANGED <<db, faults, everConnected, pc, log, files>>

InitObject ==
    /\ connection = NewObject.connection
    /\ cursor = NewObject.cursor
    /\ connected = NewObject.connected
    /\ lastOp = "__init__"
    /\ pre = NewObject
    /\ drv = <<>>
    /\ ret = NULL
    /\ raised = "None"
    /\ closes = 0
    /\ everConnected = FALSE
    /\ log = <<>>
    /\ files = {}

\* A client that calls the methods of one object in any order, on a driver that
\* can fail.
Init ==
    /\ InitObject
    /\ pc = "client"
    /\ faults = TRUE
    /\ db \in SessionDatabases

Next ==
    \/ Connect
    \/ ExecuteQuery
    \/ GetExecutiveSummary
    \/ Analyze
    \/ CreateDashboard
    \/ GenerateReport
    \/ Close

Spec == Init /\ [][Next]_vars

-----------------------------------------------------------------------------
(* main(): one session. pc is the statement main() is at; an exception raised  *)
(* in the try block takes it to "except", and every way out of the try block   *)
(* goes through "finally".                                                     *)

Step(name, queries) == log' = Append(log, [step |-> name, queries |-> queries])

\* A try block with neither handler nor finally: the exception ends main().
GotoUnhandled(exception, next) == pc' = IF exception = "None" THEN next ELSE "done"

\* After a call in the try block: on to the next statement, or to the handler.
Goto(exception, next) == pc' = IF exception = "None" THEN next ELSE "except"

\* if not analytics.connect_database(): return
MainConnect ==
    /\ pc = "connect"
    /\ \E conn \in Outcomes, cur \in Outcomes :
        LET r == connect_database(Self, conn, cur)
        IN /\ SetSelf(r.self)
           /\ Observe("connect_database", <<conn, cur>>, r.ret, r.raised)
           /\ everConnected' = (everConnected \/ r.ret)
           /\ pc' = IF r.raised # "None" THEN "except"
                    ELSE IF ~r.ret THEN "finally" ELSE "summary"
    /\ Step("connect_database", 0)
    /\ UNCHANGED <<db, faults, closes, files>>

\* summary = analytics.get_executive_summary(), and the prints of its values
MainSummary ==
    /\ pc = "summary"
    /\ \E t \in Throws(4) :
        LET r == get_executive_summary(Self, db, t)
        IN /\ Observe("get_executive_summary", t, Value(r), r.raised)
           /\ Step("get_executive_summary", r.queries)
           /\ Goto(r.raised, "analyze_sales_performance")
    /\ UNCHANGED <<connection, cursor, connected, db, faults, closes, everConnected,
                   files>>

\* The order of the three analyses main() prints.
AfterAnalysis(name) ==
    CASE name = "analyze_sales_performance" -> "analyze_inventory_status"
      [] name = "analyze_inventory_status" -> "analyze_regional_performance"
      [] name = "analyze_regional_performance" -> "dashboard"

\* sales_df, inventory_df, regional_df, each printed when it is not empty
MainAnalysis ==
    /\ pc \in {"analyze_sales_performance", "analyze_inventory_status",
               "analyze_regional_performance"}
    /\ \E t \in Throws(1) :
        LET r == analyze(pc, Self, db, t[1])
        IN /\ Observe(pc, t, Value(r), r.raised)
           /\ Goto(r.raised, AfterAnalysis(pc))
    /\ Step(pc, 1)
    /\ UNCHANGED <<connection, cursor, connected, db, faults, closes, everConnected,
                   files>>

\* analytics.create_comprehensive_dashboard()
MainDashboard ==
    /\ pc = "dashboard"
    /\ \E t \in Throws(9), chart \in ChartOutcomes :
        LET r == create_comprehensive_dashboard(Self, db, t, chart)
        IN /\ Observe("create_comprehensive_dashboard", <<chart>>, Value(r), r.raised)
           /\ Step("create_comprehensive_dashboard", r.queries)
           /\ files' = files \cup Saved(r)
           /\ Goto(r.raised, "report")
    /\ UNCHANGED <<connection, cursor, connected, db, faults, closes, everConnected>>

\* report = analytics.generate_detailed_report()
MainReport ==
    /\ pc = "report"
    /\ \E t \in Throws(7) :
        LET r == generate_detailed_report(Self, db, t)
        IN /\ Observe("generate_detailed_report", t, Value(r), r.raised)
           /\ Step("generate_detailed_report", r.queries)
           /\ Goto(r.raised, "save")
    /\ UNCHANGED <<connection, cursor, connected, db, faults, closes, everConnected,
                   files>>

\* with open('analytics_report.txt', 'w') as f: f.write(report)
\* open: the file is created, or open raises OSError.
MainSave ==
    /\ pc = "save"
    /\ \E open \in DriverOutcomes :
        /\ Observe("open", <<open>>, ret, IF open = "ok" THEN "None" ELSE "OSError")
        /\ files' = IF open = "ok" THEN files \cup {"analytics_report.txt"} ELSE files
        /\ Goto(IF open = "ok" THEN "None" ELSE "OSError", "finally")
    /\ Step("open", 0)
    /\ UNCHANGED <<connection, cursor, connected, db, faults, closes, everConnected>>

\* except Exception as e: the error is printed, with its traceback
MainExcept ==
    /\ pc = "except"
    /\ raised' = "None"
    /\ pc' = "finally"
    /\ Step("except", 0)
    /\ UNCHANGED <<connection, cursor, connected, db, faults, lastOp, pre, drv, ret,
                   closes, everConnected, files>>

\* finally: analytics.close_connection(); what it raises escapes main().
MainFinally ==
    /\ pc = "finally"
    /\ \E cur \in Outcomes, conn \in Outcomes :
        LET r == close_connection(Self, cur, conn)
        IN /\ SetSelf(r.self)
           /\ Observe("close_connection", <<cur, conn>>, r.log, r.raised)
    /\ closes' = closes + 1
    /\ pc' = "done"
    /\ Step("close_connection", 0)
    /\ UNCHANGED <<db, faults, everConnected, files>>

\* main() has built the object and enters the try block.
InitMain ==
    /\ InitObject
    /\ pc = "connect"
    /\ faults = TRUE
    /\ db \in SessionDatabases

NextMain ==
    \/ MainConnect
    \/ MainSummary
    \/ MainAnalysis
    \/ MainDashboard
    \/ MainReport
    \/ MainSave
    \/ MainExcept
    \/ MainFinally

SpecMain == InitMain /\ [][NextMain]_vars

\* The metric methods on every database of the bounds, read by a driver that
\* does not fail.
InitQueries ==
    /\ InitObject
    /\ pc = "client"
    /\ faults = FALSE
    /\ db \in Databases

NextQueries ==
    \/ Connect
    \/ GetExecutiveSummary
    \/ Analyze
    \/ GenerateReport

SpecQueries == InitQueries /\ [][NextQueries]_vars

\* The largest Quantity and the largest Reorder_Level of an Inventory row.
MaxStock == 11
MaxReorder == 10

\* Inventory: a row of product 1 with any stock and any reorder level (the
\* columns are signed integers: a level below 0 is among them), and, or not, a
\* row of product 2.
InventoryRows ==
    {[Product_ID |-> 1, Quantity |-> q, Reorder_Level |-> r, Location |-> "A"] :
        q \in 0..MaxStock, r \in (0 - 1)..MaxReorder}
InventoryDatabases ==
    {Database(<<>>, [Inventory |-> {i} \cup x, Interaction |-> {}]) :
        i \in InventoryRows,
        x \in {{}, {[Product_ID |-> 2, Quantity |-> 6, Reorder_Level |-> 10,
                     Location |-> "B"]}}}

\* The analyses on every inventory of the bounds, read by a driver that does
\* not fail.
InitInventory ==
    /\ InitObject
    /\ pc = "client"
    /\ faults = FALSE
    /\ db \in InventoryDatabases

NextInventory ==
    \/ Connect
    \/ Analyze

SpecInventory == InitInventory /\ [][NextInventory]_vars

-----------------------------------------------------------------------------
(* Properties *)

\* C1: execute_query is fail-soft: when the gateway is not connected, or when
\* pd.read_sql raises, it returns a table with zero rows, and no exception
\* escapes it in any case.
C1_ExecuteQueryFailSoft ==
    lastOp = "execute_query" =>
        /\ raised = "None"
        /\ (~pre.connected \/ drv[1]) => (Len(ret.rows) = 0 /\ IsEmpty(ret))

\* C1 witness: a connected gateway whose query raised, and an empty table returned.
C1_Witness ==
    /\ lastOp = "execute_query"
    /\ pre.connected
    /\ drv[1]
    /\ raised = "None"
    /\ ret = EmptyDataFrame

\* C2: after close_connection returns, the connected flag is False, from every
\* state and whether or not a release raised.
C2_CloseDisconnects ==
    lastOp = "close_connection" => (raised = "None" /\ ~connected)

\* C3: close_connection attempts to release the cursor and the connection
\* whenever they exist, also when releasing the cursor raises, and no release
\* error escapes it.
C3_CloseReleasesBoth ==
    lastOp = "close_connection" =>
        /\ raised = "None"
        /\ pre.cursor # "None" => ret.cursor
        /\ pre.connection # "None" => ret.connection

\* C4: close_connection on an object that never connected, and close_connection
\* called again right after close_connection, do not raise and leave the object
\* disconnected.
C4_CloseIdempotent ==
    [][(Close /\ (~everConnected \/ lastOp = "close_connection"))
        => (raised' = "None" /\ ~connected')]_vars

\* C5: main() calls close_connection exactly once, as its last step, on every
\* way out (connect failure, normal completion, an exception in the cycle), it
\* cannot stop before that, and no exception escapes it.
C5_CleanupExactlyOnce ==
    /\ closes = Cardinality({k \in DOMAIN log : log[k].step = "close_connection"})
    /\ pc # "done" => (closes = 0 /\ ENABLED NextMain)
    /\ pc = "done" =>
        /\ closes = 1
        /\ log[Len(log)].step = "close_connection"
        /\ raised = "None"

\* C5 witness: main() has ended after an exception in the cycle was handled.
C5_Witness ==
    /\ pc = "done"
    /\ closes = 1
    /\ \E k \in DOMAIN log : log[k].step = "except"

\* C6: a failed connect_database returns False, raises nothing and leaves the
\* gateway disconnected; main() then issues no query, draws no dashboard and
\* writes no file before it closes.
C6_ConnectFailureIsFatal ==
    /\ (lastOp = "connect_database" /\ "error" \in {drv[1], drv[2]}) =>
            (ret = FALSE /\ raised = "None" /\ ~connected)
    /\ (Len(log) >= 1 /\ ~everConnected) =>
        /\ files = {}
        /\ \A k \in DOMAIN log :
            /\ log[k].queries = 0
            /\ log[k].step \in {"connect_database", "close_connection"}
        /\ pc \in {"finally", "done"}
        /\ ~connected

\* C6 witness: main() has ended after a failed connect.
C6_Witness ==
    /\ pc = "done"
    /\ ~everConnected
    /\ Len(log) = 2
    /\ files = {}

HasLine(report, text) == \E k \in DOMAIN report : report[k].text = text

\* C7: when a query of get_executive_summary or generate_detailed_report returns
\* an empty table (the gateway is disconnected, or the query raised), the method
\* returns without raising, the summary value of that query is 0, and the report
\* has no section for that table.
C7_EmptyResultsDegrade ==
    /\ (lastOp = "get_executive_summary" /\ (~pre.connected \/ \E k \in 1..4 : drv[k])) =>
        /\ raised = "None"
        /\ (~pre.connected \/ drv[1]) => ret.total_revenue = 0
        /\ (~pre.connected \/ drv[2]) =>
                (ret.total_orders = 0 /\ ret.average_order_value = Zero)
        /\ (~pre.connected \/ drv[3]) => ret.active_representatives = 0
        /\ (~pre.connected \/ drv[4]) => ret.inventory_value = 0
    /\ (lastOp = "generate_detailed_report" /\ (~pre.connected \/ \E k \in 1..7 : drv[k])) =>
        /\ raised = "None"
        /\ (~pre.connected \/ drv[5]) => ~HasLine(ret, "TOP SALES PERFORMERS")
        /\ (~pre.connected \/ drv[6]) => ~HasLine(ret, "CRITICAL INVENTORY ALERTS")
        /\ (~pre.connected \/ drv[7]) => ~HasLine(ret, "REGIONAL PERFORMANCE SUMMARY")

\* C8: in every result of get_executive_summary, average_order_value is
\* total_revenue / total_orders when total_orders > 0 and is 0 otherwise, and
\* no division by zero is performed.
C8_AverageOrderValue ==
    lastOp = "get_executive_summary" =>
        /\ raised # "ZeroDivisionError"
        /\ raised = "None" =>
            IF ret.total_orders > 0
            THEN /\ ret.average_order_value.den # 0
                 /\ ret.average_order_value.num * ret.total_orders
                        = ret.total_revenue * ret.average_order_value.den
            ELSE ret.average_order_value = Zero

\* C8 witness: a summary of two orders worth 600.
C8_Witness ==
    /\ lastOp = "get_executive_summary"
    /\ raised = "None"
    /\ ret.total_orders = 2
    /\ ret.total_revenue = 600
    /\ ret.average_order_value = [num |-> 600, den |-> 2]

\* The sum of Total_cost over a set of orders.
RECURSIVE CostOf(_)
CostOf(S) ==
    IF S = {} THEN 0
    ELSE LET o == CHOOSE x \in S : TRUE IN o.Total_cost + CostOf(S \ {o})

\* C9: for every content of Orders, get_executive_summary on a connected gateway
\* whose queries succeed returns total_revenue = the sum of Total_cost over the
\* orders that are not cancelled, and total_orders = the number of those orders.
C9_SummaryTotals ==
    (lastOp = "get_executive_summary" /\ pre.connected /\ \A k \in 1..4 : ~drv[k]) =>
        /\ raised = "None"
        /\ ret.total_revenue =
                CostOf({o \in db.Orders : o.Order_Status # "Cancelled"})
        /\ ret.total_orders =
                Cardinality({o \in db.Orders : o.Order_Status # "Cancelled"})

\* The database d with every amount of a cancelled order set to 0: its
\* Total_cost, and the Line_Total of its lines.
IsCancelled(d, id) ==
    \E o \in d.Orders : o.Order_ID = id /\ o.Order_Status = "Cancelled"
CancelledZeroed(d) ==
    [d EXCEPT
        !.Orders = {IF o.Order_Status = "Cancelled"
                    THEN [o EXCEPT !.Total_cost = 0] ELSE o : o \in d.Orders},
        !.Involvement = {IF IsCancelled(d, l.Order_ID)
                         THEN [l EXCEPT !.Line_Total = 0] ELSE l : l \in d.Involvement}]

MonetaryAnalyses ==
    {"analyze_sales_performance", "analyze_regional_performance",
     "analyze_customer_segments", "analyze_product_performance"}

\* The monetary aggregate of each row of an analysis, by the row's name.
Monetary(name, df) ==
    {CASE name = "analyze_sales_performance" ->
            <<df.rows[k].Representative_Name, df.rows[k].Total_Sales>>
       [] name = "analyze_regional_performance" ->
            <<df.rows[k].Region_Name, df.rows[k].Total_Revenue>>
       [] name = "analyze_customer_segments" ->
            <<df.rows[k].Customer_Type, df.rows[k].Total_Revenue>>
       [] name = "analyze_product_performance" ->
            <<df.rows[k].Product_Name, df.rows[k].Total_Revenue>> :
        k \in DOMAIN df.rows}

\* C10: no amount of a cancelled order is counted in Total_Sales or
\* Total_Revenue of any row of the four analyses: the aggregates are what they
\* would be were those amounts 0.
C10_AggregatesExcludeCancelled ==
    (lastOp \in MonetaryAnalyses /\ pre.connected /\ ~drv[1]) =>
        Monetary(lastOp, ret)
            = Monetary(lastOp, analyze(lastOp, pre, CancelledZeroed(db), FALSE).ret)

\* The bucket of a stock against a reorder level, in percent of the level.
Bucket(stock, level) ==
    IF stock = 0 THEN "OUT_OF_STOCK"
    ELSE IF 100 * stock <= 30 * level THEN "CRITICAL"
    ELSE IF 100 * stock <= 60 * level THEN "LOW"
    ELSE IF 100 * stock <= 100 * level THEN "MODERATE"
    ELSE "ADEQUATE"

\* C11: in every row of analyze_inventory_status, Stock_Status is the bucket of
\* (Current_Stock, Reorder_Level), and a stock that is exactly 30%, 60% or 100%
\* of the reorder level is CRITICAL, LOW or MODERATE.
C11_StockStatusBuckets ==
    (lastOp = "analyze_inventory_status" /\ pre.connected) =>
        \A k \in DOMAIN ret.rows :
            LET row == ret.rows[k]
                stock == row.Current_Stock
                level == row.Reorder_Level
            IN /\ row.Stock_Status = Bucket(stock, level)
               /\ (stock # 0 /\ 10 * stock = 3 * level) => row.Stock_Status = "CRITICAL"
               /\ (stock # 0 /\ 10 * stock = 6 * level) => row.Stock_Status = "LOW"
               /\ (stock # 0 /\ stock = level) => row.Stock_Status = "MODERATE"

\* C11 witness: a row whose stock is exactly 30% of its reorder level.
C11_Witness ==
    /\ lastOp = "analyze_inventory_status"
    /\ pre.connected
    /\ \E k \in DOMAIN ret.rows :
        /\ ret.rows[k].Current_Stock = 3
        /\ ret.rows[k].Reorder_Level = 10
        /\ ret.rows[k].Stock_Status = "CRITICAL"

\* C12: in every row of analyze_inventory_status whose Current_Stock
\* is 0, Stock_Status is OUT_OF_STOCK and Action_Required is REORDER_NOW,
\* whatever the reorder level.
C12_OutOfStockReorderNow ==
    (lastOp = "analyze_inventory_status" /\ pre.connected) =>
        \A k \in DOMAIN ret.rows :
            ret.rows[k].Current_Stock = 0 =>
                /\ ret.rows[k].Stock_Status = "OUT_OF_STOCK"
                /\ ret.rows[k].Action_Required = "REORDER_NOW"

\* Where the reorder level is not below 0 the two columns agree: a row whose
\* Current_Stock is 0 has Stock_Status OUT_OF_STOCK, and Action_Required
\* REORDER_NOW.
OutOfStockReorderNowFromZero ==
    (lastOp = "analyze_inventory_status" /\ pre.connected) =>
        \A k \in DOMAIN ret.rows :
            ret.rows[k].Current_Stock = 0 =>
                /\ ret.rows[k].Stock_Status = "OUT_OF_STOCK"
                /\ ret.rows[k].Reorder_Level >= 0 =>
                        ret.rows[k].Action_Required = "REORDER_NOW"

\* A row with no stock and a reorder level of 0.
OutOfStockAtLevelZero ==
    /\ lastOp = "analyze_inventory_status"
    /\ pre.connected
    /\ \E k \in DOMAIN ret.rows :
        /\ ret.rows[k].Current_Stock = 0
        /\ ret.rows[k].Reorder_Level = 0
        /\ ret.rows[k].Stock_Status = "OUT_OF_STOCK"
        /\ ret.rows[k].Action_Required = "REORDER_NOW"

\* The representatives that have a region.
RepresentativesWithRegion ==
    {sr \in Sales_Representative : \E r \in Region : r.Region_ID = sr.Region_ID}

\* C13: analyze_sales_performance on a connected gateway returns exactly one
\* row for each representative that has a region, also for one without orders
\* and for one whose orders are all cancelled.
C13_OneRowPerRepresentative ==
    (lastOp = "analyze_sales_performance" /\ pre.connected /\ ~drv[1]) =>
        /\ Len(ret.rows) = Cardinality(RepresentativesWithRegion)
        /\ \A sr \in RepresentativesWithRegion :
            Cardinality({k \in DOMAIN ret.rows :
                            ret.rows[k].Representative_Name = sr.Name}) = 1

====
